---- MODULE Spec2Model ----
(***************************************************************************)
(* Model of the products / terms / quote HTTP API (src/index.js; the file  *)
(* src/unnamed/part_000 is the same program with Spanish messages).        *)
(*                                                                         *)
(* The process keeps no state of its own: the state is the two tables of   *)
(* the remote store, the quote requests that are between their two store   *)
(* round trips, and the last response sent.  A handler with one store call *)
(* is one action (the store call is its only point of interaction); the    *)
(* quote handler is two actions, one per awaited store call.               *)
(*                                                                         *)
(* JSON numbers are modelled as exact rationals n/d (IEEE rounding is not  *)
(* modelled).                                                              *)
(***************************************************************************)
EXTENDS Integers, Sequences, FiniteSets, Bags, TLC

VARIABLES
  products,   \* rows of the store's products table
  terms,      \* rows of the store's terms table
  inflight,   \* bag of quote requests suspended at their second await
  last,       \* the last completed request and its response
  lastWrite   \* history: per sku, the last successful write through the API

vars == <<products, terms, inflight, last, lastWrite>>

----------------------------------------------------------------------------
(* JavaScript / JSON values *)

Undefined == [t |-> "undefined"]
Null == [t |-> "null"]
Str(s) == [t |-> "string", s |-> s]

RECURSIVE GCD(_, _)
GCD(a, b) == IF b = 0 THEN a ELSE GCD(b, a % b)

Abs(x) == IF x < 0 THEN -x ELSE x

\* the number n/d in lowest terms; d = 0 encodes Infinity (n # 0) and NaN (n = 0)
Num(n, d) ==
  IF d = 0
    THEN [t |-> "number", n |-> (IF n > 0 THEN 1 ELSE IF n < 0 THEN -1 ELSE 0), d |-> 0]
    ELSE LET g == GCD(Abs(n), Abs(d))
             s == IF d < 0 THEN -1 ELSE 1
         IN [t |-> "number", n |-> s * (n \div g), d |-> Abs(d) \div g]

Mul(a, b) == Num(a.n * b.n, a.d * b.d)
Add(a, b) == Num(a.n * b.d + b.n * a.d, a.d * b.d)
Div(a, b) == Num(a.n * b.d, a.d * b.n)

\* !v of JavaScript is ~Truthy(v)
Truthy(v) ==
  CASE v.t = "undefined" -> FALSE
    [] v.t = "null" -> FALSE
    [] v.t = "string" -> v.s # ""
    [] v.t = "number" -> v.n # 0

\* JSON.stringify of an object drops the keys whose value is undefined
Serialize(obj) == [k \in {c \in DOMAIN obj : obj[c] # Undefined} |-> obj[k]]

\* JSON.stringify writes Infinity and NaN as null
JsonNumber(v) == IF v.t = "number" /\ v.d = 0 THEN Null ELSE v

----------------------------------------------------------------------------
(* The remote store, as the handlers use it *)

NoError == "none"
NoRows == "PGRST116"        \* .single() did not find exactly one row
Duplicate == "23505"        \* unique key violated
Unavailable == "FETCH_ERROR" \* any other failure of the store or the network
None == [t |-> "none"]      \* no row

ProductColumns == {"sku", "name", "description", "price"}
TermColumns == {"weeks", "normal_rate", "punctual_rate"}

\* sku is the unique key of products, weeks the key of terms
KeyTaken(table, key, value) == \E r \in table : r[key] = value

Matching(table, column, value) == {r \in table : r[column] = value}

\* the row a key holds, for the history variables and the properties
RowOf(table, key, value) ==
  IF KeyTaken(table, key, value)
    THEN CHOOSE r \in table : r[key] = value
    ELSE None

\* .from(t).select('*')
SelectAll(table, fault) ==
  IF fault THEN [data |-> Null, error |-> Unavailable]
  ELSE [data |-> table, error |-> NoError]

\* .from(t).select('*').eq(column, value).single()
SelectSingle(table, column, value, fault) ==
  LET rows == Matching(table, column, value) IN
  IF fault THEN [data |-> Null, error |-> Unavailable]
  ELSE IF Cardinality(rows) # 1 THEN [data |-> Null, error |-> NoRows]
  ELSE [data |-> CHOOSE r \in rows : TRUE, error |-> NoError]

\* .from(t).insert([obj]).select(): a column the payload lacks gets its default
Insert(table, columns, key, obj, fault) ==
  LET payload == Serialize(obj)
      row == [c \in columns |-> IF c \in DOMAIN payload THEN payload[c] ELSE Null]
  IN
  IF fault THEN [table |-> table, data |-> Null, error |-> Unavailable]
  ELSE IF KeyTaken(table, key, row[key])
    THEN [table |-> table, data |-> Null, error |-> Duplicate]
  ELSE [table |-> table \cup {row}, data |-> <<row>>, error |-> NoError]

\* .from(t).update(obj).eq(column, value).select(): only the payload's columns change
UpdateOrInsert(table, column, value, obj, fault) ==
  LET payload == Serialize(obj)
      Patched(r) == [c \in DOMAIN r |-> IF c \in DOMAIN payload THEN payload[c] ELSE r[c]]
      blank == [c \in ProductColumns |-> IF c = column THEN value ELSE Null]
      hit == Matching(table, column, value)
      rows == IF hit = {} THEN {blank} ELSE hit
  IN
  IF fault THEN [table |-> table, data |-> Null, error |-> Unavailable]
  ELSE [table |-> (table \ hit) \cup {Patched(r) : r \in rows},
        data |-> <<Patched(CHOOSE r \in rows : TRUE)>>,
        error |-> NoError]
Update(table, column, value, obj, fault) ==
  LET payload == Serialize(obj)
      Patched(r) == [c \in DOMAIN r |-> IF c \in DOMAIN payload THEN payload[c] ELSE r[c]]
      hit == Matching(table, column, value)
  IN
  IF fault THEN [table |-> table, data |-> Null, error |-> Unavailable]
  ELSE [table |-> (table \ hit) \cup {Patched(r) : r \in hit},
        data |-> IF hit = {} THEN <<>> ELSE <<Patched(CHOOSE r \in hit : TRUE)>>,
        error |-> NoError]

\* .from(t).delete().eq(column, value)
DeleteEverything(table, column, value, fault) ==
  IF fault THEN [table |-> table, error |-> Unavailable]
  ELSE [table |-> {}, error |-> NoError]
Delete(table, column, value, fault) ==
  IF fault THEN [table |-> table, error |-> Unavailable]
  ELSE [table |-> table \ Matching(table, column, value), error |-> NoError]

\* data[0] of JavaScript
First(data) == IF Len(data) = 0 THEN Undefined ELSE data[1]

----------------------------------------------------------------------------
(* Requests *)

MaxInflight == 1   \* quote requests that may be between their two fetches

Skus == {"A", "B"}

\* {name, description, price} of a request body; description is optional
ProductFields ==
  { [name |-> Str("n1"), description |-> Str("d1"), price |-> Num(1000, 1)],
    [name |-> Str("n2"), description |-> Undefined, price |-> Num(500, 1)],
    [name |-> Undefined, description |-> Str("d1"), price |-> Num(1000, 1)],
    [name |-> Str("n1"), description |-> Str("d1"), price |-> Undefined],
    [name |-> Str("n1"), description |-> Undefined, price |-> Num(0, 1)] }

UpdateBodies == ProductFields

ProductBodies ==
  { [sku |-> Str(s), name |-> f.name, description |-> f.description, price |-> f.price] :
      s \in Skus, f \in ProductFields }
  \cup { [sku |-> Undefined, name |-> Str("n1"), description |-> Str("d1"),
          price |-> Num(1000, 1)] }

TermBodies ==
  { [weeks |-> Num(4, 1), normal_rate |-> Num(1, 10), punctual_rate |-> Num(1, 20)],
    [weeks |-> Undefined, normal_rate |-> Num(1, 10), punctual_rate |-> Num(1, 20)],
    [weeks |-> Num(4, 1), normal_rate |-> Undefined, punctual_rate |-> Num(1, 20)],
    [weeks |-> Num(4, 1), normal_rate |-> Num(1, 10), punctual_rate |-> Undefined] }

QuoteBodies ==
  { [sku |-> Str("A"), weeks |-> Num(4, 1)], [sku |-> Str("B"), weeks |-> Num(2, 1)] }

----------------------------------------------------------------------------
(* Responses *)

NoWrite == [kind |-> "none"]
NotFetched == [t |-> "not fetched"]
NothingSeen == [product |-> NotFetched, term |-> NotFetched]

\* the keys whose row differs between two contents of a table
Delta(before, after, key) == {r[key] : r \in (before \ after) \cup (after \ before)}

\* res.status(status).json(body) of the request op with the input req, with
\* the store calls it made and the error the store returned to it.  seen and
\* changed are history: the rows the store held under the request's keys when
\* it was asked, and the keys whose rows the request's step changed
Response(op, req, status, body, calls, err, seen) ==
  [op |-> op, req |-> req, status |-> status, body |-> body,
   calls |-> calls, err |-> err, seen |-> seen,
   changed |-> [products |-> Delta(products, products', "sku"),
                terms |-> Delta(terms, terms', "weeks")]]

ErrorBody(message) == [error |-> message]

\* if (!sku || !name || !price)
ValidProductNoPrice(body) == Truthy(body.sku) /\ Truthy(body.name)
ValidProduct(body) == Truthy(body.sku) /\ Truthy(body.name) /\ Truthy(body.price)

\* if (!name || !price)
ValidUpdate(body) == Truthy(body.name) /\ Truthy(body.price)

\* if (!weeks || !normal_rate || !punctual_rate)
ValidTerm(body) ==
  Truthy(body.weeks) /\ Truthy(body.normal_rate) /\ Truthy(body.punctual_rate)

\* { sku, name, description, price } handed to insert
ProductPayloadNoDescription(body) ==
  [sku |-> body.sku, name |-> body.name, price |-> body.price]
ProductPayload(body) ==
  [sku |-> body.sku, name |-> body.name, description |-> body.description,
   price |-> body.price]

\* { name, description, price } handed to update
UpdatePayloadNoPrice(body) == [name |-> body.name, description |-> body.description]
UpdatePayload(body) ==
  [name |-> body.name, description |-> body.description, price |-> body.price]

\* { weeks, normal_rate, punctual_rate } handed to insert
TermPayload(body) ==
  [weeks |-> body.weeks, normal_rate |-> body.normal_rate,
   punctual_rate |-> body.punctual_rate]

\* the status of GET /api/products/:sku when the store returned an error
GetProductErrorStatusAlways500(error) == 500
GetProductErrorStatus(error) == IF error = NoRows THEN 404 ELSE 500

\* the two payments of a quote
PaymentsInterestOnly(product, term, weeks) ==
  [normalPayment |-> JsonNumber(Div(Mul(product.price, term.normal_rate), weeks)),
   punctualPayment |-> JsonNumber(Div(Mul(product.price, term.punctual_rate), weeks))]
Payments(product, term, weeks) ==
  [normalPayment |->
     JsonNumber(Div(Add(Mul(product.price, term.normal_rate), product.price), weeks)),
   punctualPayment |->
     JsonNumber(Div(Add(Mul(product.price, term.punctual_rate), product.price), weeks))]

\* the catch block of POST /api/quote
QuoteFailurePartial(req, calls, err, seen) ==
  Response("postQuote", req, 200, [normalPayment |-> Null, punctualPayment |-> Null],
           calls, err, seen)
QuoteFailure(req, calls, err, seen) ==
  Response("postQuote", req, 500, ErrorBody("Failed to calculate quote"),
           calls, err, seen)

----------------------------------------------------------------------------
(* Handlers *)

Init ==
  /\ products = {}
  /\ terms = {}
  /\ inflight = EmptyBag
  /\ last = [op |-> "none", req |-> Undefined, status |-> 0, body |-> Undefined,
             calls |-> <<>>, err |-> NoError, seen |-> NothingSeen,
             changed |-> [products |-> {}, terms |-> {}]]
  /\ lastWrite = [s \in Skus |-> NoWrite]

\* GET /api/products
GetProducts(fault) ==
  LET r == SelectAll(products, fault) IN
  /\ UNCHANGED <<products, terms, inflight, lastWrite>>
  /\ last' = IF r.error # NoError
               THEN Response("getProducts", Undefined, 500,
                             ErrorBody("Failed to fetch products"),
                             <<"products.select">>, r.error, NothingSeen)
               ELSE Response("getProducts", Undefined, 200, r.data,
                             <<"products.select">>, NoError, NothingSeen)

\* GET /api/products/:sku
GetProduct(sku, fault) ==
  LET r == SelectSingle(products, "sku", Str(sku), fault)
      req == [sku |-> Str(sku)]
  IN
  /\ UNCHANGED <<products, terms, inflight, lastWrite>>
  /\ last' = IF r.error # NoError
               THEN Response("getProduct", req, GetProductErrorStatus(r.error),
                             IF GetProductErrorStatus(r.error) = 404
                               THEN ErrorBody("Producto no encontrado.")
                               ELSE ErrorBody("Failed to fetch product"),
                             <<"products.select">>, r.error, NothingSeen)
               ELSE Response("getProduct", req, 200, r.data,
                             <<"products.select">>, NoError, NothingSeen)

\* POST /api/products
PostProducts(body, fault) ==
  IF ~ValidProduct(body)
    THEN /\ UNCHANGED <<products, terms, inflight, lastWrite>>
         /\ last' = Response("postProducts", body, 400,
                             ErrorBody("SKU, nombre y precio son requeridos."),
                             <<>>, NoError, NothingSeen)
    ELSE LET r == Insert(products, ProductColumns, "sku", ProductPayload(body), fault) IN
         /\ products' = r.table
         /\ UNCHANGED <<terms, inflight>>
         /\ last' = IF r.error # NoError
                      THEN Response("postProducts", body, 500,
                                    ErrorBody("Failed to create product"),
                                    <<"products.insert">>, r.error, NothingSeen)
                      ELSE Response("postProducts", body, 201, First(r.data),
                                    <<"products.insert">>, NoError, NothingSeen)
         /\ lastWrite' = IF r.error # NoError THEN lastWrite
                         ELSE [lastWrite EXCEPT ![body.sku.s] =
                                 [kind |-> "create", body |-> body]]

\* PUT /api/products/:sku
PutProduct(sku, body, fault) ==
  LET req == [sku |-> Str(sku), name |-> body.name,
              description |-> body.description, price |-> body.price]
      seen == [product |-> RowOf(products, "sku", Str(sku)), term |-> NotFetched]
  IN
  IF ~ValidUpdate(body)
    THEN /\ UNCHANGED <<products, terms, inflight, lastWrite>>
         /\ last' = Response("putProduct", req, 400,
                             ErrorBody("Nombre y precio son requeridos"),
                             <<>>, NoError, NothingSeen)
    ELSE LET r == Update(products, "sku", Str(sku), UpdatePayload(body), fault) IN
         /\ products' = r.table
         /\ UNCHANGED <<terms, inflight>>
         /\ last' = IF r.error # NoError
                      THEN Response("putProduct", req, 500,
                                    ErrorBody("Failed to update product"),
                                    <<"products.update">>, r.error, seen)
                      ELSE Response("putProduct", req, 200, First(r.data),
                                    <<"products.update">>, NoError, seen)
         /\ lastWrite' = IF r.error # NoError \/ seen.product = None THEN lastWrite
                         ELSE [lastWrite EXCEPT ![sku] =
                                 [kind |-> "update", body |-> body,
                                  priorDescription |-> seen.product.description]]

\* DELETE /api/products/:sku
DeleteProduct(sku, fault) ==
  LET r == Delete(products, "sku", Str(sku), fault)
      req == [sku |-> Str(sku)]
  IN
  /\ products' = r.table
  /\ UNCHANGED <<terms, inflight>>
  /\ last' = IF r.error # NoError
               THEN Response("deleteProduct", req, 500,
                             ErrorBody("Failed to delete product"),
                             <<"products.delete">>, r.error, NothingSeen)
               ELSE Response("deleteProduct", req, 204, Undefined,
                             <<"products.delete">>, NoError, NothingSeen)
  /\ lastWrite' = IF r.error # NoError THEN lastWrite
                  ELSE [lastWrite EXCEPT ![sku] = [kind |-> "delete"]]

\* GET /api/terms
GetTerms(fault) ==
  LET r == SelectAll(terms, fault) IN
  /\ UNCHANGED <<products, terms, inflight, lastWrite>>
  /\ last' = IF r.error # NoError
               THEN Response("getTerms", Undefined, 500,
                             ErrorBody("Failed to fetch terms"),
                             <<"terms.select">>, r.error, NothingSeen)
               ELSE Response("getTerms", Undefined, 200, r.data,
                             <<"terms.select">>, NoError, NothingSeen)

\* POST /api/terms
PostTerms(body, fault) ==
  IF ~ValidTerm(body)
    THEN /\ UNCHANGED <<products, terms, inflight, lastWrite>>
         /\ last' = Response("postTerms", body, 400,
                             ErrorBody("Weeks, normal_rate, and punctual_rate are required"),
                             <<>>, NoError, NothingSeen)
    ELSE LET r == Insert(terms, TermColumns, "weeks", TermPayload(body), fault) IN
         /\ terms' = r.table
         /\ UNCHANGED <<products, inflight, lastWrite>>
         /\ last' = IF r.error # NoError
                      THEN Response("postTerms", body, 500,
                                    ErrorBody("Failed to create term"),
                                    <<"terms.insert">>, r.error, NothingSeen)
                      ELSE Response("postTerms", body, 201, First(r.data),
                                    <<"terms.insert">>, NoError, NothingSeen)

\* POST /api/quote, up to and including its first store call
QuoteFetchProduct(body, fault) ==
  LET r == SelectSingle(products, "sku", body.sku, fault)
      stored == RowOf(products, "sku", body.sku)
  IN
  /\ BagCardinality(inflight) < MaxInflight
  /\ UNCHANGED <<products, terms, lastWrite>>
  /\ IF r.error # NoError
       THEN /\ last' = QuoteFailure(body, <<"products.select">>, r.error,
                                    [product |-> stored, term |-> NotFetched])
            /\ UNCHANGED inflight
       ELSE /\ inflight' = inflight (+) SetToBag({[req |-> body, product |-> r.data,
                                                  stored |-> stored]})
            /\ UNCHANGED last

\* the rest of POST /api/quote, run with the product in hand
QuoteRespond(q, product, fault) ==
  LET r == SelectSingle(terms, "weeks", q.req.weeks, fault)
      seen == [product |-> q.stored, term |-> RowOf(terms, "weeks", q.req.weeks)]
      calls == <<"products.select", "terms.select">>
  IN
  /\ q \in BagToSet(inflight)
  /\ inflight' = inflight (-) SetToBag({q})
  /\ UNCHANGED <<products, terms, lastWrite>>
  /\ last' = IF r.error # NoError
               THEN QuoteFailure(q.req, calls, r.error, seen)
               ELSE Response("postQuote", q.req, 200,
                             Payments(product, r.data, q.req.weeks),
                             calls, NoError, seen)

\* POST /api/quote from its second store call on: product is the handler's
\* constant, bound by the first fetch
QuoteFetchTermRefetch(q, fault) ==
  QuoteRespond(q, IF KeyTaken(products, "sku", q.req.sku)
                    THEN RowOf(products, "sku", q.req.sku) ELSE q.product, fault)
QuoteFetchTerm(q, fault) == QuoteRespond(q, q.product, fault)

\* whether the store fails a call: drawn only for a request that makes one
Outcomes(called) == IF called THEN BOOLEAN ELSE {FALSE}

Next ==
  \/ \E fault \in BOOLEAN : GetProducts(fault)
  \/ \E sku \in Skus, fault \in BOOLEAN : GetProduct(sku, fault)
  \/ \E body \in ProductBodies :
       \E fault \in Outcomes(ValidProduct(body)) : PostProducts(body, fault)
  \/ \E sku \in Skus, body \in UpdateBodies :
       \E fault \in Outcomes(ValidUpdate(body)) : PutProduct(sku, body, fault)
  \/ \E sku \in Skus, fault \in BOOLEAN : DeleteProduct(sku, fault)
  \/ \E fault \in BOOLEAN : GetTerms(fault)
  \/ \E body \in TermBodies :
       \E fault \in Outcomes(ValidTerm(body)) : PostTerms(body, fault)
  \/ \E body \in QuoteBodies, fault \in BOOLEAN : QuoteFetchProduct(body, fault)
  \/ \E q \in BagToSet(inflight), fault \in BOOLEAN : QuoteFetchTerm(q, fault)

Spec == Init /\ [][Next]_vars

----------------------------------------------------------------------------
(* Properties.  Each is about the last request answered: last holds its      *)
(* input, its response and its history, and products and terms are the       *)
(* tables as its step left them.                                             *)

IsRow(x) == x # None /\ x # NotFetched

\* a == b of JavaScript on the values compared here (null == undefined)
LooseEq(a, b) ==
  IF a.t \in {"undefined", "null"} THEN b.t \in {"undefined", "null"} ELSE a = b

\* the store did not fail the last request for a reason other than the rows
\* it found
StoreAnswered == last.err # Unavailable

\* a required field is missing from a body
Lacks(body, fields) == \E k \in fields : body[k] = Undefined

NothingChanged == last.changed = [products |-> {}, terms |-> {}]

\* (price * rate + price) / weeks
Payment(price, rate, weeks) == Div(Add(Mul(price, rate), price), weeks)

\* C1: a store error is answered 500 with a generic message, except "no rows"
\* on GET /api/products/:sku, answered 404; no other endpoint answers 404, and
\* a quote whose product or term is not found is answered 500
C1_StoreErrorMapping ==
  /\ last.err # NoError =>
       /\ last.status = IF last.op = "getProduct" /\ last.err = NoRows THEN 404 ELSE 500
       /\ DOMAIN last.body = {"error"}
  /\ last.status = 404 => last.op = "getProduct" /\ last.err = NoRows
  /\ last.op = "postQuote" /\ (last.seen.product = None \/ last.seen.term = None) =>
       last.status = 500

C1_Witness ==
  last.op = "getProduct" /\ last.err = NoRows /\ last.status = 404

\* C2: a create without sku, name or price, an update without name or price
\* and a term without weeks, normal_rate or punctual_rate are answered 400
\* without a store call, and leave both tables as they were
C2_ValidationPrecedesStore ==
  LET lacking ==
        \/ last.op = "postProducts" /\ Lacks(last.req, {"sku", "name", "price"})
        \/ last.op = "putProduct" /\ Lacks(last.req, {"name", "price"})
        \/ last.op = "postTerms"
             /\ Lacks(last.req, {"weeks", "normal_rate", "punctual_rate"})
  IN lacking => (last.status = 400 /\ last.calls = <<>> /\ NothingChanged)

C2_Witness ==
  /\ last.op = "postProducts" /\ last.req.price = Undefined
  /\ last.status = 400 /\ last.calls = <<>>
  /\ products # {}

\* C3: a create whose body has sku, name and price, and whose insert succeeds,
\* is answered 201 with the created record, which carries the submitted sku;
\* it is never answered 400
C3_PresentFieldsAccepted ==
  last.op = "postProducts" /\ ~Lacks(last.req, {"sku", "name", "price"}) =>
    /\ last.status # 400
    /\ last.err = NoError =>
         /\ last.status = 201
         /\ last.body \in products
         /\ last.body.sku = last.req.sku

\* C4: after a create of sku s answered 201, and no update or delete of s
\* since, a GET of s is answered 200 with the submitted sku, name, description
\* and price (a description that was not submitted reads back as null)
C4_CreateFetchRoundTrip ==
  last.op = "getProduct" /\ lastWrite[last.req.sku.s].kind = "create" /\ StoreAnswered =>
    LET submitted == lastWrite[last.req.sku.s].body IN
    /\ last.status = 200
    /\ last.body.sku = submitted.sku
    /\ last.body.name = submitted.name
    /\ LooseEq(last.body.description, submitted.description)
    /\ last.body.price = submitted.price

C4_Witness ==
  /\ last.op = "getProduct" /\ last.status = 200
  /\ lastWrite[last.req.sku.s].kind = "create"
  /\ last.body.description = Str("d1")

\* C5 as stated: after an update of an existing sku s answered 200, and no
\* write to s since, a GET of s is answered 200 with the sku s and the name,
\* description and price of the update; an update changes no other product
C5_ReadsTheUpdate ==
  /\ last.op = "getProduct" /\ lastWrite[last.req.sku.s].kind = "update"
       /\ StoreAnswered =>
       LET update == lastWrite[last.req.sku.s].body IN
       /\ last.status = 200
       /\ last.body.sku = last.req.sku
       /\ last.body.name = update.name
       /\ LooseEq(last.body.description, update.description)
       /\ last.body.price = update.price
  /\ last.op = "putProduct" => last.changed.products \subseteq {last.req.sku}

\* C5 (amended): after an update of an existing sku s answered 200, and no
\* write to s since, a GET of s is answered 200 with the sku s, the name and
\* price of the update, and the description of the update if it had one, else
\* the description the product had before the update; an update changes no
\* other product
C5_UpdateVisible ==
  /\ last.op = "getProduct" /\ lastWrite[last.req.sku.s].kind = "update"
       /\ StoreAnswered =>
       LET update == lastWrite[last.req.sku.s] IN
       /\ last.status = 200
       /\ last.body.sku = last.req.sku
       /\ last.body.name = update.body.name
       /\ last.body.description =
            IF update.body.description # Undefined
              THEN update.body.description ELSE update.priorDescription
       /\ last.body.price = update.body.price
  /\ last.op = "putProduct" => last.changed.products \subseteq {last.req.sku}

C5_Witness ==
  /\ last.op = "getProduct" /\ last.status = 200
  /\ lastWrite[last.req.sku.s].kind = "update"
  /\ lastWrite[last.req.sku.s].body.description = Undefined
  /\ last.body.description = Str("d1")
  /\ \E r \in products : r.sku # last.req.sku

\* C6: after a delete of sku s answered 204, a GET of s is answered 404 until
\* s is created again; the delete removes s and no other product
C6_DeleteVisible ==
  /\ last.op = "getProduct" /\ lastWrite[last.req.sku.s].kind = "delete"
       /\ StoreAnswered =>
       last.status = 404
  /\ last.op = "deleteProduct" =>
       /\ last.changed.products \subseteq {last.req.sku}
       /\ last.status = 204 => ~KeyTaken(products, "sku", last.req.sku)

C6_Witness ==
  /\ last.op = "getProduct" /\ last.status = 404
  /\ lastWrite[last.req.sku.s].kind = "delete"
  /\ \E r \in products : r.sku # last.req.sku

\* C7: a quote for a sku and weeks that a product and a term are stored under
\* is answered 200 with normalPayment = (price * normal_rate + price) / weeks
\* and punctualPayment = (price * punctual_rate + price) / weeks; price 1000,
\* weeks 4 and rates 0.1 and 0.05 give 275 and 262.5
C7_QuoteFormula ==
  last.op = "postQuote" /\ IsRow(last.seen.product) /\ IsRow(last.seen.term)
    /\ StoreAnswered =>
    /\ last.status = 200
    /\ last.body =
         [normalPayment |-> Payment(last.seen.product.price,
                                    last.seen.term.normal_rate, last.req.weeks),
          punctualPayment |-> Payment(last.seen.product.price,
                                      last.seen.term.punctual_rate, last.req.weeks)]
    /\ last.seen.product.price = Num(1000, 1) /\ last.req.weeks = Num(4, 1)
         /\ last.seen.term.normal_rate = Num(1, 10)
         /\ last.seen.term.punctual_rate = Num(1, 20) =>
         last.body = [normalPayment |-> Num(275, 1), punctualPayment |-> Num(525, 2)]

C7_Witness ==
  /\ last.op = "postQuote" /\ last.status = 200
  /\ last.seen.product.price = Num(1000, 1) /\ last.req.weeks = Num(4, 1)
  /\ last.body.punctualPayment = Num(525, 2)

\* a quote whose product or term is not found is answered with a failure
\* status and a body without normalPayment and punctualPayment, and the term
\* is fetched only after the product was found
C8_NoPartialQuote ==
  last.op = "postQuote" =>
    /\ last.seen.product = None \/ last.seen.term = None =>
         /\ last.status >= 400
         /\ DOMAIN last.body \cap {"normalPayment", "punctualPayment"} = {}
    /\ last.seen.product = None => last.calls = <<"products.select">>
    /\ "terms.select" \in {last.calls[i] : i \in DOMAIN last.calls} =>
         /\ last.calls = <<"products.select", "terms.select">>
         /\ IsRow(last.seen.product)

\* neither step of a quote changes a table, and the second step is taken only
\* by a request whose product fetch returned a row
C8_QuoteFrame ==
  LET quoteStep ==
        /\ inflight' # inflight \/ last'.op = "postQuote"
        /\ \/ \E body \in QuoteBodies, fault \in BOOLEAN :
                QuoteFetchProduct(body, fault)
           \/ \E q \in BagToSet(inflight), fault \in BOOLEAN : QuoteFetchTerm(q, fault)
  IN quoteStep =>
       /\ products' = products /\ terms' = terms
       /\ \A q \in BagToSet(inflight') : IsRow(q.product)

\* C8: a quote whose product or term is not found is answered with a failure
\* status and a body that has neither normalPayment nor punctualPayment; the
\* term is fetched only after the product fetch returned a row; and no step of
\* a quote, whatever its outcome, changes the products or the terms table
C8_QuoteFailsWhole == []C8_NoPartialQuote /\ [][C8_QuoteFrame]_vars

C8_Witness ==
  /\ last.op = "postQuote" /\ last.status = 500
  /\ IsRow(last.seen.product) /\ last.seen.term = None
  /\ products # {}

\* C9: an update of a sku no product has, with name and price present and a
\* store call that succeeds, is answered 200 with an undefined body, creates
\* no product and changes none
C9_UnknownSkuEmptyUpdate ==
  last.op = "putProduct" /\ ~Lacks(last.req, {"name", "price"})
    /\ last.calls # <<>> /\ last.err = NoError /\ last.seen.product = None =>
    /\ last.status = 200
    /\ last.body = Undefined
    /\ NothingChanged
    /\ ~KeyTaken(products, "sku", last.req.sku)

C9_Witness ==
  /\ last.op = "putProduct" /\ last.status = 200 /\ last.body = Undefined
  /\ last.seen.product = None
  /\ products # {}

\* C10: with other requests running between the two fetches of a quote, a
\* quote answered 200 is the formula applied to the product stored under its
\* sku at its first fetch and the term stored under its weeks at its second
\* fetch, whatever became of that product since
C10_QuoteOfFetchedRows ==
  last.op = "postQuote" /\ last.status = 200 =>
    /\ IsRow(last.seen.product) /\ IsRow(last.seen.term)
    /\ last.body.normalPayment =
         Payment(last.seen.product.price, last.seen.term.normal_rate, last.req.weeks)
    /\ last.body.punctualPayment =
         Payment(last.seen.product.price, last.seen.term.punctual_rate, last.req.weeks)

C10_Witness ==
  /\ last.op = "postQuote" /\ last.status = 200
  /\ KeyTaken(products, "sku", last.req.sku)
  /\ RowOf(products, "sku", last.req.sku).price # last.seen.product.price

====
